---- MODULE Spec2Model ----
(***************************************************************************)
(* EMG teaching platform: the continuous playback scheduler and the audio  *)
(* event synthesizers of utils/audioSynthesis (src/unnamed/part_000) and   *)
(* the pattern assembler of src/src/utils/waveformGen.js.                  *)
(*                                                                         *)
(* Time is in milliseconds.  JavaScript runs every handler to completion,  *)
(* so each handler is one action.  Timers are punctual: a timer runs when  *)
(* its delay has elapsed, timers of one handle that are due together run   *)
(* in creation order, and the clock moves only when no timer is due.       *)
(* Math.random() is a value r/1000 with r drawn from RandomOutcomes.       *)
(* The array timeoutIds of the code keeps every id ever pushed; clearing   *)
(* an id that has run or was cleared does nothing, so the model keeps the  *)
(* pending ones only.  The volume argument does not reach the scheduling   *)
(* and is left out.                                                        *)
(***************************************************************************)
EXTENDS Integers, Sequences, FiniteSets, TLC

VARIABLES
    audioAvailable, \* the host offers window.AudioContext / webkitAudioContext
    audioContext,   \* module variable audioContext: "null" or "ctx"
    status,         \* per call of playContinuousPattern: "none", "returned", "threw"
    patternType,    \* argument patternType of the call
    duration,       \* argument duration of the call (seconds)
    isPlaying,      \* closure variable isPlaying
    timeoutIds,     \* closure variable timeoutIds: the timers still pending, in creation order
    events,         \* number of play* synthesizer calls made for the handle (saturating)
    elapsed,        \* milliseconds since the call of playContinuousPattern (saturating)
    stopCalls,      \* number of stop() calls of the handle that have returned (0, 1, 2 = more)
    last,           \* the handler that ran last and what it did
    gen,            \* the last call of generateEMGPattern and its result
    emgMounted,     \* EMGModule is mounted
    emgIsPlaying,   \* EMGModule state isPlaying
    soundEnabled,   \* EMGModule state soundEnabled
    selectedPattern,\* EMGModule state selectedPattern
    audioControlRef,\* EMGModule audioControlRef.current: a handle or "null"
    emgTimers,      \* EMGModule's pending 10-second timers, in creation order
    sources,        \* the audio sources created by direct synthesizer calls and not yet ended
    wave,           \* the last direct call of a waveform generator and its result
    lookups,        \* the calls of getPatternMetadata / getAudioCharacteristics made, with their results
    ncv,            \* NCVModule state: distance (mm), distalLatency and proximalLatency (tenths of a ms)
    activeTab,      \* App state activeTab
    report,         \* the call of generateReport(studyData) made, with the way its promise settled
    caseStudies,    \* CaseStudies state: selectedCase, selectedDiagnosis, showFeedback
    reportBuilder   \* ReportBuilder form state, the preview window and the downloaded file

schedVars == <<audioAvailable, audioContext, status, patternType, duration,
               isPlaying, timeoutIds, events, elapsed, stopCalls, last>>
emgVars == <<emgMounted, emgIsPlaying, soundEnabled, selectedPattern,
             audioControlRef, emgTimers>>
vars == <<audioAvailable, audioContext, status, patternType, duration,
          isPlaying, timeoutIds, events, elapsed, stopCalls, last, gen,
          emgMounted, emgIsPlaying, soundEnabled, selectedPattern,
          audioControlRef, emgTimers, sources, wave, lookups, ncv,
          activeTab, report, caseStudies, reportBuilder>>
\* the Case Studies and Report Builder tabs
practiceVars == <<activeTab, caseStudies, reportBuilder>>
\* the state of the other screens
uiVars == <<ncv, report, practiceVars>>
\* what neither the scheduler nor EMGModule touches
sideVars == <<sources, wave, lookups, uiVars>>

----------------------------------------------------------------------------
(* Bounds of the model *)

MaxDuration == 1        \* durations -1..MaxDuration seconds are tried
RandomSteps == 2        \* Math.random() takes the values k/RandomSteps, and 0.999
MaxEvents == 3          \* the event counter saturates here
MaxHalfMs == 6          \* generateEMGPattern durations, in half milliseconds
MaxSampleRate == 2      \* generateEMGPattern sample rates (samples per ms)
MaxEmgTimers == 2       \* Play presses of EMGModule whose 10-second timer is still pending
MaxLookups == 2         \* catalogue lookups made in one behaviour
MaxPeriods == 40        \* CRD buffers of 1..MaxPeriods periods of 25 ms are generated
MaxWaveMs == 30         \* waveform generators are sampled at times -MaxWaveMs..MaxWaveMs ms
MaxOverlap == 1         \* a direct synthesizer call is made while at most this many sources are alive
MaxFindings == 2        \* findings in the studyData handed to generateReport
MaxRows == 1            \* rows of each findings table of ReportBuilder

ClockCap == MaxDuration * 1000 + 1000

Handles == {"h1", "h2"}

\* the five ids the code knows, and PositiveSharpWave, which has a
\* synthesizer (playPositiveSharpWave) but no id in any switch or table
KnownPatterns == {"normal", "fibrillation", "fasciculation", "myotonic", "crd"}
PatternIds == KnownPatterns \cup {"positiveSharpWave"}

Durations == (0 - 1)..MaxDuration

\* Math.random() in thousandths: a value in [0, 1)
RandomOutcomes == {(k * 1000) \div RandomSteps : k \in 0..(RandomSteps - 1)} \cup {999}

Min(a, b) == IF a < b THEN a ELSE b

\* durations (half milliseconds) and sample rates (samples per ms) tried
GenHalfMs == (0 - 2)..MaxHalfMs
GenRates == 1..MaxSampleRate

----------------------------------------------------------------------------
(* Audio event synthesizers *)

\* getAudioContext: creates the context on first use; the constructor call
\* throws a TypeError when the host has neither AudioContext nor webkitAudioContext
GetAudioContextThrows(ctx, avail) == ctx = "null" /\ ~avail

getAudioContext(ctx, avail) == IF ctx = "null" /\ avail THEN "ctx" ELSE ctx

\* numSpikes = 3 + Math.floor(Math.random() * 3)
NumSpikes(r) == 3 + ((r * 3) \div 1000)

\* EventLifetime with the CRD spikes 150 ms apart
EventLifetimeSlowSpikes(p, r) ==
    CASE p = "normal"        -> 15
      [] p = "fibrillation"  -> 5
      [] p = "fasciculation" -> 20
      [] p = "myotonic"      -> 500
      [] p = "crd"           -> (NumSpikes(r) - 1) * 150 + 10
      [] OTHER               -> 0

\* the time (ms after now) at which the last source created by one
\* synthesizer call is stopped: osc.stop(now + ...) or the buffer length
EventLifetime(p, r) ==
    CASE p = "normal"        -> 15
      [] p = "fibrillation"  -> 5
      [] p = "fasciculation" -> 20
      [] p = "myotonic"      -> 500
      [] p = "crd"           -> (NumSpikes(r) - 1) * 15 + 10
      [] OTHER               -> 0

\* NextDelay with the fibrillation span mistyped (330 for 130)
NextDelayWideFibrillation(p, r) ==
    CASE p = "normal"        -> 50 + ((r * 100) \div 1000)
      [] p = "fibrillation"  -> 70 + ((r * 330) \div 1000)
      [] p = "fasciculation" -> 500 + ((r * 2500) \div 1000)
      [] p = "myotonic"      -> 600
      [] p = "crd"           -> 300
      [] OTHER               -> 0

\* NextDelay with the myotonic re-trigger at the event's own 500 ms
NextDelayMyotonicOwnDuration(p, r) ==
    CASE p = "normal"        -> 50 + ((r * 100) \div 1000)
      [] p = "fibrillation"  -> 70 + ((r * 130) \div 1000)
      [] p = "fasciculation" -> 500 + ((r * 2500) \div 1000)
      [] p = "myotonic"      -> 500
      [] p = "crd"           -> 300
      [] OTHER               -> 0

\* the delay handed to setTimeout(playPattern, ...) per case of the switch
NextDelay(p, r) ==
    CASE p = "normal"        -> 50 + ((r * 100) \div 1000)
      [] p = "fibrillation"  -> 70 + ((r * 130) \div 1000)
      [] p = "fasciculation" -> 500 + ((r * 2500) \div 1000)
      [] p = "myotonic"      -> 600
      [] p = "crd"           -> 300
      [] OTHER               -> 0

EventTimer(d) == [kind |-> "event", rem |-> d, delay |-> d]

\* DeadlineDelay taking the duration for minutes
DeadlineDelayMinutes(d) == d * 60000

\* duration * 1000, the delay of the auto-stop timer
DeadlineDelay(d) == d * 1000

DeadlineTimer(d) == [kind |-> "deadline", rem |-> DeadlineDelay(d), delay |-> DeadlineDelay(d)]

\* playPattern whose crd case forgets to re-schedule itself
playPatternCrdNoReschedule(p, playing, ctx, avail, r, s) ==
    IF ~playing
    THEN [threw |-> FALSE, played |-> FALSE, sched |-> <<>>, ctx |-> ctx, life |-> 0]
    ELSE IF p \in KnownPatterns
    THEN IF GetAudioContextThrows(ctx, avail)
         THEN [threw |-> TRUE, played |-> FALSE, sched |-> <<>>, ctx |-> ctx, life |-> 0]
         ELSE [threw |-> FALSE, played |-> TRUE,
               sched |-> IF p = "crd" THEN <<>> ELSE <<EventTimer(NextDelay(p, r))>>,
               ctx |-> getAudioContext(ctx, avail), life |-> EventLifetime(p, s)]
    ELSE [threw |-> FALSE, played |-> FALSE, sched |-> <<>>, ctx |-> ctx, life |-> 0]

\* playPattern arming two timers for its next run
playPatternTwoSuccessors(p, playing, ctx, avail, r, s) ==
    IF ~playing
    THEN [threw |-> FALSE, played |-> FALSE, sched |-> <<>>, ctx |-> ctx, life |-> 0]
    ELSE IF p \in KnownPatterns
    THEN IF GetAudioContextThrows(ctx, avail)
         THEN [threw |-> TRUE, played |-> FALSE, sched |-> <<>>, ctx |-> ctx, life |-> 0]
         ELSE [threw |-> FALSE, played |-> TRUE,
               sched |-> <<EventTimer(NextDelay(p, r)), EventTimer(NextDelay(p, r))>>,
               ctx |-> getAudioContext(ctx, avail), life |-> EventLifetime(p, s)]
    ELSE [threw |-> FALSE, played |-> FALSE, sched |-> <<>>, ctx |-> ctx, life |-> 0]

\* One run of the closure playPattern: what it does given the flag, the
\* pattern and the audio context.  r is the draw for the delay, s the draw
\* for the CRD spike count.
playPattern(p, playing, ctx, avail, r, s) ==
    IF ~playing
    THEN [threw |-> FALSE, played |-> FALSE, sched |-> <<>>, ctx |-> ctx, life |-> 0]
    ELSE IF p \in KnownPatterns
    THEN IF GetAudioContextThrows(ctx, avail)
         THEN [threw |-> TRUE, played |-> FALSE, sched |-> <<>>, ctx |-> ctx, life |-> 0]
         ELSE [threw |-> FALSE, played |-> TRUE,
               sched |-> <<EventTimer(NextDelay(p, r))>>,
               ctx |-> getAudioContext(ctx, avail), life |-> EventLifetime(p, s)]
    ELSE [threw |-> FALSE, played |-> FALSE, sched |-> <<>>, ctx |-> ctx, life |-> 0]

\* stop() written as a toggle of the flag
StopEffectToggle(playing, ids) == [isPlaying |-> ~playing, timeoutIds |-> <<>>]

\* stop() and the auto-stop callback: isPlaying = false, clearTimeout on every id
StopEffect(playing, ids) == [isPlaying |-> FALSE, timeoutIds |-> <<>>]

----------------------------------------------------------------------------
(* Timer bookkeeping *)

Bump(n) == Min(n + 1, MaxEvents)

PendingRems ==
    UNION {{timeoutIds[h][i].rem : i \in 1..Len(timeoutIds[h])} : h \in Handles}
       \cup {emgTimers[i] : i \in 1..Len(emgTimers)}

SomeDue == 0 \in PendingRems

MinRem == CHOOSE m \in PendingRems : \A x \in PendingRems : m <= x

\* index of the first timer of the handle that is due, 0 when none is
FirstDue(h) ==
    IF \E i \in 1..Len(timeoutIds[h]) : timeoutIds[h][i].rem = 0
    THEN CHOOSE i \in 1..Len(timeoutIds[h]) :
            /\ timeoutIds[h][i].rem = 0
            /\ \A j \in 1..(i - 1) : timeoutIds[h][j].rem # 0
    ELSE 0

Without(s, i) == SubSeq(s, 1, i - 1) \o SubSeq(s, i + 1, Len(s))

EventTimers(h) == {i \in 1..Len(timeoutIds[h]) : timeoutIds[h][i].kind = "event"}
DeadlineTimers(h) == {i \in 1..Len(timeoutIds[h]) : timeoutIds[h][i].kind = "deadline"}

NoOp == [op |-> "init", h |-> "h1", played |-> FALSE, threw |-> FALSE,
         cleared |-> 0, delay |-> 0, life |-> 0]

----------------------------------------------------------------------------
(* The scheduler *)

GenIdle == [pattern |-> "normal", halfMs |-> 0, rate |-> 1, threw |-> FALSE,
            len |-> 0, placed |-> {}, called |-> FALSE, data |-> <<>>]

\* ReportBuilder's form: the patient name, the number of rows of the two
\* findings tables and the interpretation text
EmptyForm == [name |-> "", ncvFindings |-> 0, emgFindings |-> 0, interpretation |-> ""]

\* no document (a window not opened, a file not downloaded)
NoDocument == [kind |-> "none", form |-> EmptyForm]

CaseStudiesInitial == [selectedCase |-> 0, selectedDiagnosis |-> "", showFeedback |-> FALSE]

ReportIdle == [called |-> FALSE, studyData |-> [kind |-> "absent", items |-> <<>>],
               response |-> "ok", outcome |-> "resolved", origin |-> "service",
               interpretation |-> <<>>, recommendations |-> <<>>]

WaveIdle == [fn |-> "none", n |-> 0, d |-> 1, total |-> 0, f |-> 0, value |-> 0]

Init ==
    /\ audioAvailable \in BOOLEAN
    /\ audioContext = "null"
    /\ status = [h \in Handles |-> "none"]
    /\ patternType = [h \in Handles |-> "normal"]
    /\ duration = [h \in Handles |-> 0]
    /\ isPlaying = [h \in Handles |-> FALSE]
    /\ timeoutIds = [h \in Handles |-> <<>>]
    /\ events = [h \in Handles |-> 0]
    /\ elapsed = [h \in Handles |-> 0]
    /\ stopCalls = [h \in Handles |-> 0]
    /\ last = NoOp
    /\ gen = GenIdle
    /\ emgMounted = TRUE
    /\ emgIsPlaying = FALSE
    /\ soundEnabled = TRUE
    /\ sources = <<>>
    /\ wave = WaveIdle
    /\ lookups = <<>>
    /\ ncv = [distance |-> 200, distalLatency |-> 35, proximalLatency |-> 78]
    /\ report = ReportIdle
    /\ activeTab = "home"
    /\ caseStudies = CaseStudiesInitial
    /\ reportBuilder = [form |-> EmptyForm, previewWindow |-> NoDocument,
                        downloaded |-> NoDocument]
    /\ selectedPattern = "normal"
    /\ audioControlRef = "null"
    /\ emgTimers = <<>>

\* playContinuousPattern(p, d, volume): first playPattern() synchronously,
\* then the auto-stop timer when duration > 0, then the handle is returned.
\* When playPattern throws, the call throws and no handle exists.
Start(h, p, d, r, s) ==
    /\ status[h] = "none"
    /\ LET eff == playPattern(p, TRUE, audioContext, audioAvailable, r, s)
           ids == eff.sched \o (IF d > 0 THEN <<DeadlineTimer(d)>> ELSE <<>>)
       IN  /\ audioContext' = eff.ctx
           /\ patternType' = [patternType EXCEPT ![h] = p]
           /\ duration' = [duration EXCEPT ![h] = d]
           /\ IF eff.threw
              THEN /\ status' = [status EXCEPT ![h] = "threw"]
                   /\ UNCHANGED <<isPlaying, timeoutIds, events>>
              ELSE /\ status' = [status EXCEPT ![h] = "returned"]
                   /\ isPlaying' = [isPlaying EXCEPT ![h] = TRUE]
                   /\ timeoutIds' = [timeoutIds EXCEPT ![h] = ids]
                   /\ events' = [events EXCEPT ![h] = IF eff.played THEN 1 ELSE 0]
           /\ last' = [op |-> "start", h |-> h, played |-> eff.played,
                       threw |-> eff.threw, cleared |-> 0,
                       delay |-> IF eff.sched = <<>> THEN 0 ELSE eff.sched[1].delay,
                       life |-> eff.life]
    /\ UNCHANGED <<audioAvailable, elapsed, stopCalls, gen>>

\* a due event timer runs playPattern
PlayPatternTimer(h, r, s) ==
    /\ status[h] = "returned"
    /\ FirstDue(h) # 0
    /\ timeoutIds[h][FirstDue(h)].kind = "event"
    /\ LET rest == Without(timeoutIds[h], FirstDue(h))
           eff == playPattern(patternType[h], isPlaying[h], audioContext,
                              audioAvailable, r, s)
       IN  /\ audioContext' = eff.ctx
           /\ timeoutIds' = [timeoutIds EXCEPT ![h] = rest \o eff.sched]
           /\ events' = [events EXCEPT ![h] = IF eff.played THEN Bump(@) ELSE @]
           /\ last' = [op |-> "playPattern", h |-> h, played |-> eff.played,
                       threw |-> eff.threw, cleared |-> 0,
                       delay |-> IF eff.sched = <<>> THEN 0 ELSE eff.sched[1].delay,
                       life |-> eff.life]
    /\ UNCHANGED <<audioAvailable, status, patternType, duration, isPlaying,
                   elapsed, stopCalls, gen>>

\* the due auto-stop timer runs: isPlaying = false, every id cleared
AutoStop(h) ==
    /\ status[h] = "returned"
    /\ FirstDue(h) # 0
    /\ timeoutIds[h][FirstDue(h)].kind = "deadline"
    /\ LET rest == Without(timeoutIds[h], FirstDue(h))
           eff == StopEffect(isPlaying[h], rest)
       IN  /\ isPlaying' = [isPlaying EXCEPT ![h] = eff.isPlaying]
           /\ timeoutIds' = [timeoutIds EXCEPT ![h] = eff.timeoutIds]
           /\ last' = [op |-> "autoStop", h |-> h, played |-> FALSE, threw |-> FALSE,
                       cleared |-> Len(rest) - Len(eff.timeoutIds),
                       delay |-> 0, life |-> 0]
    /\ UNCHANGED <<audioAvailable, audioContext, status, patternType, duration,
                   events, elapsed, stopCalls, gen>>

\* stop() of a scheduler whose flag and timer list are shared by all handles
StopShared(h) ==
    /\ status[h] = "returned"
    /\ isPlaying' = [g \in Handles |-> FALSE]
    /\ timeoutIds' = [g \in Handles |-> <<>>]
    /\ last' = [op |-> "stop", h |-> h, played |-> FALSE, threw |-> FALSE,
                cleared |-> Len(timeoutIds[h]), delay |-> 0, life |-> 0]
    /\ stopCalls' = [stopCalls EXCEPT ![h] = Min(@ + 1, 2)]
    /\ UNCHANGED <<audioAvailable, audioContext, status, patternType, duration,
                   events, elapsed, gen>>

\* handle.stop()
Stop(h) ==
    /\ status[h] = "returned"
    /\ LET eff == StopEffect(isPlaying[h], timeoutIds[h])
       IN  /\ isPlaying' = [isPlaying EXCEPT ![h] = eff.isPlaying]
           /\ timeoutIds' = [timeoutIds EXCEPT ![h] = eff.timeoutIds]
           /\ last' = [op |-> "stop", h |-> h, played |-> FALSE, threw |-> FALSE,
                       cleared |-> Len(timeoutIds[h]) - Len(eff.timeoutIds),
                       delay |-> 0, life |-> 0]
    /\ stopCalls' = [stopCalls EXCEPT ![h] = Min(@ + 1, 2)]
    /\ UNCHANGED <<audioAvailable, audioContext, status, patternType, duration,
                   events, elapsed, gen>>

\* time passes up to the next due time (one second when nothing is pending)
Advance ==
    /\ ~SomeDue
    /\ (\E h \in Handles : status[h] = "returned") \/ emgTimers # <<>>
    /\ LET dt == IF PendingRems = {} THEN 1000 ELSE MinRem
       IN  /\ timeoutIds' = [h \in Handles |->
                 [i \in 1..Len(timeoutIds[h]) |->
                    [timeoutIds[h][i] EXCEPT !.rem = @ - dt]]]
           /\ elapsed' = [h \in Handles |->
                 IF status[h] = "returned" THEN Min(elapsed[h] + dt, ClockCap)
                 ELSE elapsed[h]]
           /\ emgTimers' = [i \in 1..Len(emgTimers) |-> emgTimers[i] - dt]
    /\ last' = [NoOp EXCEPT !.op = "advance"]
    /\ UNCHANGED <<audioAvailable, audioContext, status, patternType, duration,
                   isPlaying, events, stopCalls, gen>>
    /\ UNCHANGED <<emgMounted, emgIsPlaying, soundEnabled, selectedPattern,
                   audioControlRef, sources, wave, lookups, uiVars>>

----------------------------------------------------------------------------
(* The sources the synthesizers create *)

\* a source on which stop() was not called
NoStop == 0 - 1

\* ctx.createOscillator() ... osc.start(now + startIn); osc.stop(now + stopIn)
Oscillator(fn, startIn, stopIn) ==
    [fn |-> fn, kind |-> "oscillator", started |-> TRUE, startIn |-> startIn,
     stopIn |-> stopIn, bufferLeft |-> 0, loop |-> FALSE]

\* osc.start(now); osc.stop(now + 0.015)
playNormalMUAP == <<Oscillator("playNormalMUAP", 0, 15)>>

\* playFibrillation with source.loop = true
playFibrillationLooping ==
    <<[fn |-> "playFibrillation", kind |-> "bufferSource", started |-> TRUE,
       startIn |-> 0, stopIn |-> NoStop, bufferLeft |-> 5, loop |-> TRUE]>>

\* a buffer of ctx.sampleRate * 0.005 samples; source.start(now), no stop,
\* source.loop is left at its default false
playFibrillation ==
    <<[fn |-> "playFibrillation", kind |-> "bufferSource", started |-> TRUE,
       startIn |-> 0, stopIn |-> NoStop, bufferLeft |-> 5, loop |-> FALSE]>>

\* osc.start(now); osc.stop(now + 0.020)
playFasciculation == <<Oscillator("playFasciculation", 0, 20)>>

\* osc.start(now); osc.stop(now + duration), duration in ms here
playMyotonicDischarge(d) == <<Oscillator("playMyotonicDischarge", 0, d)>>

\* numSpikes oscillators, spike i (from 0) started at now + i * 0.015 and
\* stopped 0.010 later
playComplexRepetitiveDischarge(r) ==
    [i \in 1..NumSpikes(r) |->
       Oscillator("playComplexRepetitiveDischarge", (i - 1) * 15, (i - 1) * 15 + 10)]

\* osc.start(now); osc.stop(now + 0.020)
playPositiveSharpWave == <<Oscillator("playPositiveSharpWave", 0, 20)>>

Synthesizers == {"playNormalMUAP", "playFibrillation", "playFasciculation",
                 "playMyotonicDischarge", "playComplexRepetitiveDischarge",
                 "playPositiveSharpWave"}

\* the duration argument of playMyotonicDischarge (ms): its default 0.5 s,
\* which is also what playContinuousPattern passes, and half of it
MyotonicDurations == {250, 500}

SourcesOf(fn, r, d) ==
    CASE fn = "playNormalMUAP"                 -> playNormalMUAP
      [] fn = "playFibrillation"               -> playFibrillation
      [] fn = "playFasciculation"              -> playFasciculation
      [] fn = "playMyotonicDischarge"          -> playMyotonicDischarge(d)
      [] fn = "playComplexRepetitiveDischarge" -> playComplexRepetitiveDischarge(r)
      [] fn = "playPositiveSharpWave"          -> playPositiveSharpWave

\* one call of a synthesizer: getAudioContext() first, which may throw
Synthesize(fn, r, d) ==
    /\ Len(sources) <= MaxOverlap
    /\ audioContext' = getAudioContext(audioContext, audioAvailable)
    /\ sources' = IF GetAudioContextThrows(audioContext, audioAvailable)
                  THEN sources
                  ELSE sources \o SourcesOf(fn, r, d)
    /\ last' = [NoOp EXCEPT !.op = fn, !.threw = GetAudioContextThrows(audioContext, audioAvailable)]
    /\ UNCHANGED <<audioAvailable, status, patternType, duration, isPlaying,
                   timeoutIds, events, elapsed, stopCalls, gen, wave, lookups, uiVars>>
    /\ UNCHANGED emgVars

\* the source has ended: its stop time has come, or its buffer, played
\* once, has run out
Ended(src) ==
    \/ src.stopIn # NoStop /\ src.stopIn <= 0
    \/ src.kind = "bufferSource" /\ ~src.loop /\ src.bufferLeft <= 0

\* the times (ms from now) at which a source starts or ends
DueTimes(src) ==
    {t \in {src.startIn, src.stopIn} : t > 0}
    \cup (IF src.kind = "bufferSource" /\ ~src.loop /\ src.startIn = 0
          THEN {src.bufferLeft} ELSE {})

NextDue ==
    LET ts == UNION {DueTimes(sources[i]) : i \in 1..Len(sources)}
    IN  CHOOSE t \in ts : \A u \in ts : t <= u

\* dt later on the audio clock
Later(src, dt) ==
    [src EXCEPT !.startIn = IF @ > dt THEN @ - dt ELSE 0,
                !.stopIn = IF @ = NoStop THEN NoStop
                           ELSE IF @ > dt THEN @ - dt ELSE 0,
                !.bufferLeft = IF src.kind = "bufferSource" /\ ~src.loop /\ src.startIn = 0
                               THEN (IF @ > dt THEN @ - dt ELSE 0)
                               ELSE @]

\* the audio clock advances to the next start or end of a source, and the
\* sources that have ended are dropped
Tick ==
    /\ \E i \in 1..Len(sources) : DueTimes(sources[i]) # {}
    /\ sources' = SelectSeq([i \in 1..Len(sources) |-> Later(sources[i], NextDue)],
                            LAMBDA src : ~Ended(src))
    /\ last' = [NoOp EXCEPT !.op = "tick"]
    /\ UNCHANGED <<audioAvailable, audioContext, status, patternType, duration,
                   isPlaying, timeoutIds, events, elapsed, stopCalls, gen, wave, lookups, uiVars>>
    /\ UNCHANGED emgVars

NextSynth ==
    \/ \E fn \in Synthesizers, r \in RandomOutcomes, d \in MyotonicDurations :
          Synthesize(fn, r, d)
    \/ Tick

SpecSynth == Init /\ [][NextSynth]_vars

----------------------------------------------------------------------------
(* The waveform generators of waveformGen.js                               *)
(*                                                                         *)
(* A time is a fraction n / d of a millisecond (d samples per ms); a       *)
(* value is in thousandths of a microvolt.  Math.sin and Math.exp are      *)
(* computed by rational approximations on integers.                        *)

\* a % b of JavaScript: the result has the sign of a
JsRem(a, b) == IF a >= 0 THEN a % b ELSE 0 - ((0 - a) % b)

\* 1000 * Math.sin(Math.PI * p / q), q > 0: the angle is reduced to
\* [0, 2 pi) and taken on a grid of at least 360 steps per pi; on [0, pi]
\* Bhaskara's approximation 16 x (pi - x) / (5 pi^2 - 4 x (pi - x)) is
\* used, continued by sin(x + pi) = -sin(x)
SinMilli(p, q) ==
    LET c == IF q >= 720 THEN q \div 360 ELSE 1
        qq == q \div c
        m == (p % (2 * q)) \div c
        h == Min(IF m >= qq THEN m - qq ELSE m, qq)
        v == (16000 * h * (qq - h)) \div (5 * qq * qq - 4 * h * (qq - h))
    IN  IF m >= qq THEN 0 - v ELSE v

\* 1000 * Math.exp(-a / b), 0 <= a <= 16 * b, as (1 - a / (16 b)) ^ 16
ExpMilli(a, b) ==
    LET sq(y) == (y * y) \div 1000
    IN  sq(sq(sq(sq((1000 * (16 * b - a)) \div (16 * b)))))

\* generateNormalMUAP(n / d): duration 12, amplitude 800
generateNormalMUAP(n, d) ==
    IF n < 0 \/ n > 12 * d THEN 0
    ELSE IF 100 * n < 180 * d THEN 160 * SinMilli(100 * n, 180 * d)
    ELSE IF 100 * n < 780 * d THEN 0 - 800 * SinMilli(100 * n - 180 * d, 600 * d)
    ELSE 120 * SinMilli(100 * n - 780 * d, 420 * d)

\* generateFibrillation(n / d): duration 2, amplitude 150
generateFibrillation(n, d) ==
    IF n < 0 \/ n > 2 * d THEN 0
    ELSE IF 10 * n < 8 * d THEN 150 * SinMilli(10 * n, 8 * d)
    ELSE 0 - 105 * SinMilli(10 * n - 8 * d, 12 * d)

\* a fasciculation generator with a shape of its own (amplitude 600)
generateFasciculationOwnShape(n, d) ==
    IF n < 0 \/ n > 12 * d THEN 0
    ELSE IF 100 * n < 180 * d THEN 120 * SinMilli(100 * n, 180 * d)
    ELSE IF 100 * n < 780 * d THEN 0 - 600 * SinMilli(100 * n - 180 * d, 600 * d)
    ELSE 90 * SinMilli(100 * n - 780 * d, 420 * d)

\* generateFasciculation(n / d): return generateNormalMUAP(timeMs)
generateFasciculation(n, d) == generateNormalMUAP(n, d)

\* generateMyotonicDischarge(n / d, tn / td): amplitude 200, frequency
\* 150 -> 20 Hz, envelope rising to 0.3, flat to 0.7, falling to 1
generateMyotonicDischarge(n, d, tn, td) ==
    IF n < 0 \/ n * td > tn * d THEN 0
    ELSE LET pn == n * td          \* progress = pn / pd
             pd == d * tn
             s == SinMilli(2 * (150 * pd - 130 * pn) * n, 1000 * pd * d)
         IN  IF 10 * pn < 3 * pd THEN (200 * 10 * pn * s) \div (3 * pd)
             ELSE IF 10 * pn < 7 * pd THEN 200 * s
             ELSE (200 * 10 * (pd - pn) * s) \div (3 * pd)

\* the spike of generateComplexRepetitiveDischarge at t = a / b of its
\* 15 ms: amplitude * (0.5 sin(2 pi t) + 0.3 sin(3 pi t) + 0.2 sin(4 pi t))
CrdSpike(a, b) ==
    150 * SinMilli(2 * a, b) + 90 * SinMilli(3 * a, b) + 60 * SinMilli(4 * a, b)

\* generateComplexRepetitiveDischarge with a spike of 10 ms
generateComplexRepetitiveDischargeShortSpike(n, d, f) ==
    LET timeInPeriod == JsRem(n * f, 1000 * d)
    IN  IF timeInPeriod > 10 * d * f THEN 0 ELSE CrdSpike(timeInPeriod, 10 * d * f)

\* generateComplexRepetitiveDischarge(n / d, f): period = 1000 / f,
\* timeInPeriod = timeMs % period (here in units of 1 / (d f) ms),
\* 0 when timeInPeriod > 15, else the spike at timeInPeriod / 15
generateComplexRepetitiveDischarge(n, d, f) ==
    LET timeInPeriod == JsRem(n * f, 1000 * d)
    IN  IF timeInPeriod > 15 * d * f THEN 0 ELSE CrdSpike(timeInPeriod, 15 * d * f)

\* generatePositiveSharpWave(n / d): duration 20, amplitude 400
generatePositiveSharpWave(n, d) ==
    IF n < 0 \/ n > 20 * d THEN 0
    ELSE IF n < 4 * d THEN (100000 * n) \div d
    ELSE 0 - 280 * ExpMilli(n - 4 * d, 4 * d)

Generators == {"generateNormalMUAP", "generateFibrillation", "generateFasciculation",
               "generateMyotonicDischarge", "generateComplexRepetitiveDischarge",
               "generatePositiveSharpWave"}

\* totalDuration arguments of generateMyotonicDischarge (ms; 500 is the default)
TotalDurations == {20, 500}

\* burstFreq arguments of generateComplexRepetitiveDischarge (40 is the
\* default and what generateEMGPattern passes)
BurstFreqs == {40, 50}

WaveValue(fn, n, d, total, f) ==
    CASE fn = "generateNormalMUAP"                 -> generateNormalMUAP(n, d)
      [] fn = "generateFibrillation"               -> generateFibrillation(n, d)
      [] fn = "generateFasciculation"              -> generateFasciculation(n, d)
      [] fn = "generateMyotonicDischarge"          -> generateMyotonicDischarge(n, d, total, 1)
      [] fn = "generateComplexRepetitiveDischarge" -> generateComplexRepetitiveDischarge(n, d, f)
      [] fn = "generatePositiveSharpWave"          -> generatePositiveSharpWave(n, d)

\* one direct call of a generator at the time n / d; total and f are the
\* second argument of the two generators that have one
Sample(fn, n, d, total, f) ==
    /\ wave' = [fn |-> fn, n |-> n, d |-> d,
                total |-> IF fn = "generateMyotonicDischarge" THEN total ELSE 0,
                f |-> IF fn = "generateComplexRepetitiveDischarge" THEN f ELSE 0,
                value |-> WaveValue(fn, n, d, total, f)]
    /\ UNCHANGED <<schedVars, gen, emgVars, sources, lookups, uiVars>>

\* the generators keep no state, so one call per behaviour covers every call
NextWave ==
    /\ wave = WaveIdle
    /\ \E d \in GenRates : \E n \in (0 - MaxWaveMs * d)..(MaxWaveMs * d) :
          \/ \E fn \in Generators \ {"generateMyotonicDischarge",
                                      "generateComplexRepetitiveDischarge"} :
                Sample(fn, n, d, 0, 0)
          \/ \E total \in TotalDurations : Sample("generateMyotonicDischarge", n, d, total, 0)
          \/ \E f \in BurstFreqs : Sample("generateComplexRepetitiveDischarge", n, d, 0, f)

SpecWave == Init /\ [][NextWave]_vars

----------------------------------------------------------------------------
(* The pattern assembler *)

\* numSamples with the product rounded up
NumSamplesCeil(halfMs, rate) == (halfMs * rate + 1) \div 2

\* numSamples = Math.floor(durationMs * sampleRate), durationMs = halfMs / 2
NumSamples(halfMs, rate) == (halfMs * rate) \div 2

\* the patterns whose case places events where Math.random() < p succeeds
PoissonPatterns == {"normal", "fibrillation", "fasciculation"}

\* muapDuration, fibDuration, fascDuration (ms)
EventDurationMs(p) ==
    CASE p = "normal"        -> 12
      [] p = "fibrillation"  -> 2
      [] p = "fasciculation" -> 12

\* the generator the case of p calls, at j / rate
EventValue(p, j, rate) ==
    CASE p = "normal"        -> generateNormalMUAP(j, rate)
      [] p = "fibrillation"  -> generateFibrillation(j, rate)
      [] p = "fasciculation" -> generateFasciculation(j, rate)

\* the inner loop with data[i + j] = ... in place of data[i + j] += ...
AddEventOverwrite(data, i, p, rate) ==
    [k \in 1..Len(data) |->
       LET j == (k - 1) - i
       IN  IF j >= 0 /\ j < EventDurationMs(p) * rate
           THEN EventValue(p, j, rate)
           ELSE data[k]]

\* the inner loop for an event starting at sample i:
\* for (j = 0; j < dur * sampleRate && i + j < numSamples; j++)
\*    data[i + j] += generator(j / sampleRate)
AddEvent(data, i, p, rate) ==
    [k \in 1..Len(data) |->
       LET j == (k - 1) - i
       IN  IF j >= 0 /\ j < EventDurationMs(p) * rate
           THEN data[k] + EventValue(p, j, rate)
           ELSE data[k]]

\* the outer loop: the events are added in the order of their start index
RECURSIVE PlaceEvents(_, _, _, _)
PlaceEvents(data, starts, p, rate) ==
    IF starts = {} THEN data
    ELSE LET i == CHOOSE x \in starts : \A y \in starts : x <= y
         IN  PlaceEvents(AddEvent(data, i, p, rate), starts \ {i}, p, rate)

\* the buffer (index k holds data[k - 1] of the code).  Math.random()
\* returns 0 at the sample steps in draws and 0.999 at the others; the
\* default case stores (Math.random() - 0.5) * 10
Samples(p, halfMs, rate, draws) ==
    LET zero == [k \in 1..NumSamples(halfMs, rate) |-> 0]
    IN  CASE p \in PoissonPatterns -> PlaceEvents(zero, draws, p, rate)
          [] p = "myotonic" ->
               [k \in 1..NumSamples(halfMs, rate) |->
                  generateMyotonicDischarge(k - 1, rate, halfMs, 2)]
          [] p = "crd" ->
               [k \in 1..NumSamples(halfMs, rate) |->
                  generateComplexRepetitiveDischarge(k - 1, rate, 40)]
          [] OTHER ->
               [k \in 1..NumSamples(halfMs, rate) |->
                  IF (k - 1) \in draws THEN (0 - 500) * 10 ELSE (999 - 500) * 10]

\* generateEMGPattern(p, halfMs / 2, rate): new Float32Array(numSamples)
\* throws a RangeError for a negative length; otherwise the buffer has
\* numSamples samples and, for the three PoissonLike cases, an event starts
\* at every sample index whose draw Math.random() < p succeeded (draws: the
\* set of those indices).
generateEMGPattern(p, halfMs, rate, draws) ==
    IF NumSamples(halfMs, rate) < 0
    THEN [pattern |-> p, halfMs |-> halfMs, rate |-> rate, threw |-> TRUE,
          len |-> 0, placed |-> {}, called |-> TRUE, data |-> <<>>]
    ELSE [pattern |-> p, halfMs |-> halfMs, rate |-> rate, threw |-> FALSE,
          len |-> NumSamples(halfMs, rate),
          placed |-> IF p \in PoissonPatterns THEN draws ELSE {},
          called |-> TRUE,
          data |-> Samples(p, halfMs, rate, draws)]

\* one call of generateEMGPattern
Generate(p, halfMs, rate, draws) ==
    /\ draws \subseteq 0..(NumSamples(halfMs, rate) - 1)
    /\ p \in {"myotonic", "crd"} => draws = {}
    /\ gen' = generateEMGPattern(p, halfMs, rate, draws)
    /\ UNCHANGED schedVars
    /\ UNCHANGED <<emgVars, sideVars>>

\* generateEMGPattern keeps no state, so one call per behaviour covers
\* every call
NextGen ==
    /\ ~gen.called
    /\ \E p \in PatternIds, halfMs \in GenHalfMs, rate \in GenRates :
          \E draws \in SUBSET (0..(NumSamples(halfMs, rate) - 1)) :
             Generate(p, halfMs, rate, draws)

SpecGen == Init /\ [][NextGen]_vars

\* sample rates of the CRD buffers; 10 is the default of generateEMGPattern
CrdRates == {1, 2, 5, 10}

\* generateEMGPattern('crd', 25 * periods, rate)
NextCrd ==
    /\ ~gen.called
    /\ \E periods \in 1..MaxPeriods, rate \in CrdRates :
          Generate("crd", 50 * periods, rate, {})

SpecCrd == Init /\ [][NextCrd]_vars

\* the probability, in ten-thousandths, with which a sample step starts an
\* event: Math.random() < 0.015, < 0.008, < 0.0015
PlacementPerTenThousand(p) ==
    CASE p = "normal"        -> 150
      [] p = "fibrillation"  -> 80
      [] p = "fasciculation" -> 15

\* the sample steps of a one-second buffer at which events are placed
SecondStarts == {0, 10, 500, 999}

\* generateEMGPattern(p, 1000, rate) for the three PoissonLike patterns
NextSecond ==
    /\ ~gen.called
    /\ \E p \in PoissonPatterns, rate \in CrdRates, draws \in SUBSET SecondStarts :
          Generate(p, 2000, rate, draws)

SpecSecond == Init /\ [][NextSecond]_vars

----------------------------------------------------------------------------
(* The catalogue: the two tables the UI reads *)

\* the object literal metadata of getPatternMetadata
metadata ==
    [normal |-> [name |-> "Normal Motor Unit", duration |-> "8-15ms",
                 amplitude |-> "200-2000uV", firing |-> "5-30Hz"],
     fibrillation |-> [name |-> "Fibrillation Potential", duration |-> "1-5ms",
                       amplitude |-> "50-300uV", firing |-> "Irregular 2-20Hz"],
     fasciculation |-> [name |-> "Fasciculation Potential", duration |-> "8-15ms (MUAP-like)",
                        amplitude |-> "200-2000uV", firing |-> "Random, 0.5-5s apart"],
     myotonic |-> [name |-> "Myotonic Discharge", duration |-> "100-1000ms",
                   amplitude |-> "Waxing-waning", firing |-> "20-150Hz sweep"],
     crd |-> [name |-> "Complex Repetitive Discharge", duration |-> "10-20ms per spike",
              amplitude |-> "100-1000uV", firing |-> "Regular 20-50Hz"]]

\* return metadata[patternType] || metadata.normal (as getPatternMetadata,
\* over a table given as argument)
LookUp(table, id) ==
    IF id \in DOMAIN table THEN table[id] ELSE table["normal"]

getPatternMetadata(id) == LookUp(metadata, id)

\* the object literal characteristics of getAudioCharacteristics
characteristics ==
    [normal |-> [soundDescription |-> "Clean pops - voluntary muscle activation",
                 frequency |-> "50-150Hz dominant",
                 timing |-> "Regular when voluntarily recruited"],
     fibrillation |-> [soundDescription |-> "Rain on tin roof - short, crisp, irregular clicks",
                       frequency |-> "Brief transients (1-5ms)",
                       timing |-> "Irregular 2-20Hz"],
     fasciculation |-> [soundDescription |-> "Popcorn popping - intermittent random pops",
                        frequency |-> "Similar to normal MUAP",
                        timing |-> "Random, 0.1-5 seconds apart"],
     myotonic |-> [soundDescription |-> "Dive bomber airplane - high to low frequency sweep",
                   frequency |-> "1500Hz -> 200Hz sweep",
                   timing |-> "Continuous 0.5-1 second duration"],
     crd |-> [soundDescription |-> "Machine gun / jackhammer - very regular mechanical rhythm",
              frequency |-> "150-300Hz with harmonics",
              timing |-> "Regular bursts at 20-50Hz"]]

getAudioCharacteristics(id) == LookUp(characteristics, id)

\* one call of getPatternMetadata
LookUpMetadata(id) ==
    /\ Len(lookups) < MaxLookups
    /\ lookups' = Append(lookups, [fn |-> "getPatternMetadata", id |-> id,
                                   result |-> getPatternMetadata(id)])
    /\ UNCHANGED <<schedVars, gen, emgVars, sources, wave, uiVars>>

\* one call of getAudioCharacteristics
LookUpCharacteristics(id) ==
    /\ Len(lookups) < MaxLookups
    /\ lookups' = Append(lookups, [fn |-> "getAudioCharacteristics", id |-> id,
                                   result |-> getAudioCharacteristics(id)])
    /\ UNCHANGED <<schedVars, gen, emgVars, sources, wave, uiVars>>

NextCatalogue ==
    \/ \E id \in PatternIds : LookUpMetadata(id)
    \/ \E id \in PatternIds : LookUpCharacteristics(id)

SpecCatalogue == Init /\ [][NextCatalogue]_vars

----------------------------------------------------------------------------
(* EMGModule: the caller of the scheduler *)

\* the ids of the patterns array of EMGModule
EmgPatterns == {"normal", "fibrillation", "fasciculation", "myotonic", "crd"}

\* what a handler leaves alone when it touches no handle
quietVars == <<audioAvailable, audioContext, status, patternType, duration,
               isPlaying, timeoutIds, events, elapsed, stopCalls, gen>>

\* audioControlRef.current.stop() when the ref holds a handle
StopRef(op) ==
    IF audioControlRef # "null"
    THEN Stop(audioControlRef)
    ELSE /\ last' = [NoOp EXCEPT !.op = op]
         /\ UNCHANGED quietVars

\* togglePlay: Stop press when isPlaying, Play press otherwise.  The Play
\* press starts a handle (slot h) when sound is enabled, with duration 0,
\* and arms a 10-second timer; when playContinuousPattern throws, the
\* handler ends there.
TogglePlay(h, r, s) ==
    /\ emgMounted
    /\ IF emgIsPlaying
       THEN /\ StopRef("togglePlay")
            /\ audioControlRef' = "null"
            /\ emgIsPlaying' = FALSE
            /\ UNCHANGED <<emgMounted, soundEnabled, selectedPattern, emgTimers>>
       ELSE IF soundEnabled
       THEN /\ Start(h, selectedPattern, 0, r, s)
            /\ IF playPattern(selectedPattern, TRUE, audioContext, audioAvailable, r, s).threw
               THEN UNCHANGED emgVars
               ELSE /\ Len(emgTimers) < MaxEmgTimers
                    /\ audioControlRef' = h
                    /\ emgIsPlaying' = TRUE
                    /\ emgTimers' = Append(emgTimers, 10000)
                    /\ UNCHANGED <<emgMounted, soundEnabled, selectedPattern>>
       ELSE /\ Len(emgTimers) < MaxEmgTimers
            /\ last' = [NoOp EXCEPT !.op = "togglePlay"]
            /\ emgIsPlaying' = TRUE
            /\ emgTimers' = Append(emgTimers, 10000)
            /\ UNCHANGED quietVars
            /\ UNCHANGED <<emgMounted, soundEnabled, selectedPattern, audioControlRef>>

\* the pattern button that forgets to stop the handle
SelectPatternNoStop(p) ==
    /\ emgMounted
    /\ selectedPattern' = p
    /\ last' = [NoOp EXCEPT !.op = "selectPattern"]
    /\ emgIsPlaying' = FALSE
    /\ UNCHANGED quietVars
    /\ UNCHANGED <<emgMounted, soundEnabled, audioControlRef, emgTimers>>

\* a pattern button: select, and when playing stop the handle of the ref
\* (the ref keeps it) and clear isPlaying
SelectPattern(p) ==
    /\ emgMounted
    /\ selectedPattern' = p
    /\ IF emgIsPlaying
       THEN /\ StopRef("selectPattern")
            /\ emgIsPlaying' = FALSE
       ELSE /\ last' = [NoOp EXCEPT !.op = "selectPattern"]
            /\ UNCHANGED quietVars
            /\ UNCHANGED emgIsPlaying
    /\ UNCHANGED <<emgMounted, soundEnabled, audioControlRef, emgTimers>>

\* the sound button: setSoundEnabled(!soundEnabled)
ToggleSound ==
    /\ emgMounted
    /\ soundEnabled' = ~soundEnabled
    /\ last' = [NoOp EXCEPT !.op = "toggleSound"]
    /\ UNCHANGED quietVars
    /\ UNCHANGED <<emgMounted, emgIsPlaying, selectedPattern, audioControlRef, emgTimers>>

\* a 10-second timer of a Play press runs: stops the handle the ref holds
\* now, clears the ref and isPlaying (no state update once unmounted)
EmgTimerFire ==
    /\ emgTimers # <<>>
    /\ emgTimers[1] = 0
    /\ emgTimers' = Tail(emgTimers)
    /\ StopRef("emgTimer")
    /\ audioControlRef' = "null"
    /\ emgIsPlaying' = IF emgMounted THEN FALSE ELSE emgIsPlaying
    /\ UNCHANGED <<emgMounted, soundEnabled, selectedPattern>>

\* a cleanup that leaves the handle of the ref playing
UnmountNoStop ==
    /\ emgMounted
    /\ emgMounted' = FALSE
    /\ last' = [NoOp EXCEPT !.op = "unmount"]
    /\ UNCHANGED quietVars
    /\ UNCHANGED <<emgIsPlaying, soundEnabled, selectedPattern, audioControlRef, emgTimers>>

\* the cleanup of the mount effect: stops the handle of the ref
Unmount ==
    /\ emgMounted
    /\ emgMounted' = FALSE
    /\ StopRef("unmount")
    /\ UNCHANGED <<emgIsPlaying, soundEnabled, selectedPattern, audioControlRef, emgTimers>>

\* a closure that is stopped, has no timer left and is not held by the
\* ref is unreachable
Releasable(h) ==
    status[h] # "none" /\ ~isPlaying[h] /\ timeoutIds[h] = <<>> /\ audioControlRef # h

\* the slot of an unreachable closure is free for the next call
Release(h) ==
    /\ Releasable(h)
    /\ status' = [status EXCEPT ![h] = "none"]
    /\ patternType' = [patternType EXCEPT ![h] = "normal"]
    /\ duration' = [duration EXCEPT ![h] = 0]
    /\ events' = [events EXCEPT ![h] = 0]
    /\ elapsed' = [elapsed EXCEPT ![h] = 0]
    /\ stopCalls' = [stopCalls EXCEPT ![h] = 0]
    /\ last' = [NoOp EXCEPT !.op = "release"]
    /\ UNCHANGED <<audioAvailable, audioContext, isPlaying, timeoutIds, gen>>
    /\ UNCHANGED emgVars

\* the patterns the user plays in the runs explored (any may be selected)
PlayedPatterns == {"myotonic"}

\* the pattern buttons the user presses
SelectedPatterns == {"normal", "myotonic"}

\* the slot of the next call of playContinuousPattern: the free ones are
\* interchangeable, "h1" is used before "h2"
NextSlot(h) == status[h] = "none" /\ (h = "h1" \/ status["h1"] # "none")

\* unreachable closures are released before anything else happens
\* the myotonic case draws no random number: one outcome stands for all
EmgRandom == {0}

NextEmg ==
    \/ \E h \in Handles : Release(h) /\ UNCHANGED sideVars
    \/ /\ ~\E h \in Handles : Releasable(h)
       /\ \/ \E h \in Handles, r \in EmgRandom, s \in EmgRandom :
                /\ emgIsPlaying \/ (selectedPattern \in PlayedPatterns /\ NextSlot(h))
                /\ TogglePlay(h, r, s)
                /\ UNCHANGED sideVars
          \/ \E p \in SelectedPatterns : SelectPattern(p) /\ UNCHANGED sideVars
          \/ ToggleSound /\ UNCHANGED sideVars
          \/ EmgTimerFire /\ UNCHANGED sideVars
          \/ Unmount /\ UNCHANGED sideVars
          \/ \E h \in Handles, r \in EmgRandom, s \in EmgRandom :
                PlayPatternTimer(h, r, s) /\ UNCHANGED <<emgVars, sideVars>>
          \/ Advance

SpecEmg == Init /\ [][NextEmg]_vars

----------------------------------------------------------------------------
(* Specifications of the scheduler *)

Next ==
    \/ \E p \in PatternIds, d \in Durations, r \in RandomOutcomes, s \in RandomOutcomes :
          Start("h1", p, d, r, s) /\ UNCHANGED <<emgVars, sideVars>>
    \/ \E r \in RandomOutcomes, s \in RandomOutcomes :
          PlayPatternTimer("h1", r, s) /\ UNCHANGED <<emgVars, sideVars>>
    \/ AutoStop("h1") /\ UNCHANGED <<emgVars, sideVars>>
    \/ Stop("h1") /\ UNCHANGED <<emgVars, sideVars>>
    \/ Advance

Spec == Init /\ [][Next]_vars

\* Math.random() at the two ends of its range
ExtremeOutcomes == {0, 999}

\* the scheduler with the shortest and the longest delays
NextLive ==
    \/ \E p \in PatternIds, d \in Durations, r \in ExtremeOutcomes, s \in ExtremeOutcomes :
          Start("h1", p, d, r, s) /\ UNCHANGED <<emgVars, sideVars>>
    \/ \E r \in ExtremeOutcomes, s \in ExtremeOutcomes :
          PlayPatternTimer("h1", r, s) /\ UNCHANGED <<emgVars, sideVars>>
    \/ AutoStop("h1") /\ UNCHANGED <<emgVars, sideVars>>
    \/ Stop("h1") /\ UNCHANGED <<emgVars, sideVars>>
    \/ Advance

\* setTimeout callbacks that are due do run, and time does pass
LiveSpec ==
    /\ Init /\ [][NextLive]_vars
    /\ WF_vars(Advance)
    /\ WF_vars(\E r \in ExtremeOutcomes, s \in ExtremeOutcomes :
                  PlayPatternTimer("h1", r, s) /\ UNCHANGED <<emgVars, sideVars>>)
    /\ WF_vars(AutoStop("h1") /\ UNCHANGED <<emgVars, sideVars>>)

\* two calls of playContinuousPattern side by side: a myotonic discharge
\* (an event every 600 ms) with or without a deadline, and complex
\* repetitive discharges (every 300 ms) without
TwoHandlePatterns == [h1 |-> "myotonic", h2 |-> "crd"]

Next2 ==
    \/ \E h \in Handles, r \in RandomOutcomes, s \in RandomOutcomes :
          \E d \in IF h = "h1" THEN {0, MaxDuration} ELSE {0} :
             Start(h, TwoHandlePatterns[h], d, r, s) /\ UNCHANGED <<emgVars, sideVars>>
    \/ \E h \in Handles, r \in RandomOutcomes, s \in RandomOutcomes :
          PlayPatternTimer(h, r, s) /\ UNCHANGED <<emgVars, sideVars>>
    \/ \E h \in Handles : AutoStop(h) /\ UNCHANGED <<emgVars, sideVars>>
    \/ \E h \in Handles : Stop(h) /\ UNCHANGED <<emgVars, sideVars>>
    \/ Advance

Spec2 == Init /\ [][Next2]_vars

LiveSpec2 ==
    /\ Spec2
    /\ WF_vars(Advance)
    /\ \A h \in Handles :
          /\ WF_vars(\E r \in RandomOutcomes, s \in RandomOutcomes :
                        PlayPatternTimer(h, r, s) /\ UNCHANGED <<emgVars, sideVars>>)
          /\ WF_vars(AutoStop(h) /\ UNCHANGED <<emgVars, sideVars>>)

----------------------------------------------------------------------------
(* Calls with an id that no table and no switch knows *)

UnknownIds == {"unknown"}

\* the scheduler, the assembler and the two tables, each called with
\* 'normal' or with an unknown id.  The three share no state, so a
\* behaviour calls one of them.
NextUnknown ==
    \/ /\ ~gen.called /\ lookups = <<>>
       /\ \/ \E p \in {"normal"} \cup UnknownIds, d \in {0, MaxDuration},
                r \in RandomOutcomes, s \in RandomOutcomes :
                Start("h1", p, d, r, s) /\ UNCHANGED <<emgVars, sideVars>>
          \/ \E r \in RandomOutcomes, s \in RandomOutcomes :
                PlayPatternTimer("h1", r, s) /\ UNCHANGED <<emgVars, sideVars>>
          \/ AutoStop("h1") /\ UNCHANGED <<emgVars, sideVars>>
          \/ Stop("h1") /\ UNCHANGED <<emgVars, sideVars>>
          \/ Advance
    \/ /\ ~gen.called /\ lookups = <<>> /\ status["h1"] = "none"
       /\ \E p \in {"normal"} \cup UnknownIds, rate \in GenRates :
             \E draws \in SUBSET (0..(NumSamples(2, rate) - 1)) :
                Generate(p, 2, rate, draws)
    \/ /\ ~gen.called /\ status["h1"] = "none"
       /\ \/ \E id \in {"normal"} \cup UnknownIds : LookUpMetadata(id)
          \/ \E id \in {"normal"} \cup UnknownIds : LookUpCharacteristics(id)

SpecUnknown == Init /\ [][NextUnknown]_vars

(***************************************************************************)
(* NCVModule: three independent sliders, the drawn action potentials and   *)
(* the conduction velocity.  Latencies are tenths of a millisecond,        *)
(* horizontal positions are tenths of a pixel relative to the centre x of  *)
(* the response box, velocities are tenths of a m/s.                       *)
(***************************************************************************)
DistanceValues == {100, 200, 300}
\* the sliders move in steps of 0.1 ms; every fifth position is explored
DistalLatencies == {v \in 20..100 : v % 5 = 0}
ProximalLatencies == {v \in 50..200 : v % 5 = 0}
waveformWidth == 1500
PointOffsets == {0, 50, 100, 150, 200, 250, 300}

\* startX = x - waveformWidth / 2 + 20 + (latency / 10) * 80, relative to x
startX(latency) == 0 - waveformWidth \div 2 + 200 + 8 * latency

\* the horizontal positions px = startX + point[0] of the drawn points
PointXs(latency) == {startX(latency) + o : o \in PointOffsets}

\* the rectangle filled and stroked from x - waveformWidth / 2, waveformWidth wide
InsideBox(px) == 0 - waveformWidth \div 2 <= px /\ px <= waveformWidth \div 2

\* distance / (proximalLatency - distalLatency): Infinity when the latencies are equal
conductionVelocity(n) ==
    LET diff == n.proximalLatency - n.distalLatency
    IN  IF diff = 0 THEN [finite |-> FALSE, tenths |-> 0]
        ELSE IF diff > 0 THEN [finite |-> TRUE, tenths |-> (n.distance * 100) \div diff]
        ELSE [finite |-> TRUE, tenths |-> 0 - ((n.distance * 100) \div (0 - diff))]

ncvQuiet == <<schedVars, gen, emgVars, sources, wave, lookups, report, practiceVars>>

setDistance(v) ==
    /\ ncv' = [ncv EXCEPT !.distance = v]
    /\ UNCHANGED ncvQuiet

setDistalLatency(v) ==
    /\ ncv' = [ncv EXCEPT !.distalLatency = v]
    /\ UNCHANGED ncvQuiet

setProximalLatency(v) ==
    /\ ncv' = [ncv EXCEPT !.proximalLatency = v]
    /\ UNCHANGED ncvQuiet

NextNcv ==
    \/ \E v \in DistanceValues : setDistance(v)
    \/ \E v \in DistalLatencies : setDistalLatency(v)
    \/ \E v \in ProximalLatencies : setProximalLatency(v)

SpecNcv == Init /\ [][NextNcv]_vars

(***************************************************************************)
(* generateReport(studyData) of waveformGen.js: the request to the report  *)
(* service and the local fallback.  Amplitudes and velocities are whole    *)
(* numbers.                                                                *)
(***************************************************************************)
Finding(t, a, cv, fib, rr) ==
    [type |-> t, amplitude |-> a, conductionVelocity |-> cv,
     fibrillations |-> fib, reducedRecruitment |-> rr]

\* the findings handed in: low and normal motor, sensory and needle findings
FindingValues ==
    {Finding("motor", 1, 50, FALSE, FALSE), Finding("motor", 10, 30, FALSE, FALSE),
     Finding("motor", 10, 50, FALSE, FALSE), Finding("sensory", 1, 0, FALSE, FALSE),
     Finding("sensory", 20, 0, FALSE, FALSE), Finding("emg", 0, 0, TRUE, FALSE),
     Finding("emg", 0, 0, FALSE, TRUE), Finding("emg", 0, 0, FALSE, FALSE)}

FindingLists == UNION {[1..n -> FindingValues] : n \in 0..MaxFindings}

\* studyData.findings: absent, an array of findings, or an object that is
\* not an array (findings keyed by nerve)
StudyDatas ==
    {[kind |-> "absent", items |-> <<>>], [kind |-> "object", items |-> <<>>]}
       \cup {[kind |-> "array", items |-> l] : l \in FindingLists}

\* fetch rejects; the service answers 2xx with JSON, 2xx with a body that
\* is not JSON, or a non-2xx status
Responses == {"networkError", "ok", "okNotJson", "status500"}

RECURSIVE SumAmplitude(_)
SumAmplitude(s) == IF s = <<>> THEN 0 ELSE Head(s).amplitude + SumAmplitude(Tail(s))

RECURSIVE SumVelocity(_)
SumVelocity(s) == IF s = <<>> THEN 0 ELSE Head(s).conductionVelocity + SumVelocity(Tail(s))

OfType(findings, t) == SelectSeq(findings, LAMBDA f : f.type = t)

\* generateLocalInterpretation with the default line always appended
generateLocalInterpretationNoDefault(findings) ==
    LET motor == OfType(findings, "motor")
        sensory == OfType(findings, "sensory")
        emg == OfType(findings, "emg")
    IN  (IF motor # <<>> /\ SumAmplitude(motor) < 2 * Len(motor)
            THEN <<"Reduced motor amplitudes suggest axonal loss">> ELSE <<>>)
        \o (IF motor # <<>> /\ SumVelocity(motor) < 40 * Len(motor)
            THEN <<"Slowed conduction velocities suggest demyelination">> ELSE <<>>)
        \o (IF sensory # <<>> /\ SumAmplitude(sensory) < 5 * Len(sensory)
            THEN <<"Reduced sensory amplitudes present">> ELSE <<>>)
        \o (IF (\E k \in 1..Len(emg) : emg[k].fibrillations)
            THEN <<"Active denervation present (fibrillation potentials)">> ELSE <<>>)
        \o (IF (\E k \in 1..Len(emg) : emg[k].reducedRecruitment)
            THEN <<"Reduced recruitment pattern suggests neurogenic process">> ELSE <<>>)

\* generateLocalInterpretation(studyData), given studyData.findings || []
generateLocalInterpretation(findings) ==
    LET interpretation == generateLocalInterpretationNoDefault(findings)
    IN  IF Len(interpretation) > 0 THEN interpretation
        ELSE <<"Study within normal limits">>

\* i.includes(word) for the lines generateLocalInterpretation produces
Includes(i, word) ==
    CASE word = "axonal"        -> i = "Reduced motor amplitudes suggest axonal loss"
      [] word = "demyelination" -> i = "Slowed conduction velocities suggest demyelination"
      [] word = "denervation"   -> i = "Active denervation present (fibrillation potentials)"
      [] OTHER                  -> FALSE

\* generateRecommendations without its default line
generateRecommendationsNoDefault(findings) ==
    LET interpretation == generateLocalInterpretation(findings)
    IN  (IF (\E k \in 1..Len(interpretation) : Includes(interpretation[k], "axonal"))
            THEN <<"Consider metabolic workup including diabetes, B12, thyroid function",
                   "Clinical correlation with symptoms and distribution">> ELSE <<>>)
        \o (IF (\E k \in 1..Len(interpretation) : Includes(interpretation[k], "demyelination"))
            THEN <<"Consider inflammatory neuropathy workup (CIDP, GBS)",
                   "May benefit from CSF analysis and nerve biopsy consideration">> ELSE <<>>)
        \o (IF (\E k \in 1..Len(interpretation) : Includes(interpretation[k], "denervation"))
            THEN <<"Consider radiculopathy vs anterior horn cell disease",
                   "MRI of appropriate spinal level if radicular pattern">> ELSE <<>>)

\* generateRecommendations(studyData)
generateRecommendations(findings) ==
    LET recommendations == generateRecommendationsNoDefault(findings)
    IN  IF Len(recommendations) > 0 THEN recommendations
        ELSE <<"Routine follow-up as clinically indicated">>

\* generateFallbackReport(studyData): findings.filter throws a TypeError
\* when studyData.findings is truthy and not an array
generateFallbackReport(studyData) ==
    IF studyData.kind = "object"
    THEN [threw |-> TRUE, interpretation |-> <<>>, recommendations |-> <<>>]
    ELSE [threw |-> FALSE,
          interpretation |-> generateLocalInterpretation(studyData.items),
          recommendations |-> generateRecommendations(studyData.items)]

\* the async function generateReport run to the settling of its promise
generateReport(studyData, response) ==
    IF response = "ok"
    THEN [outcome |-> "resolved", origin |-> "service",
          interpretation |-> <<>>, recommendations |-> <<>>]
    ELSE LET fallback == generateFallbackReport(studyData)
         IN  [outcome |-> IF fallback.threw THEN "rejected" ELSE "resolved",
              origin |-> "fallback",
              interpretation |-> fallback.interpretation,
              recommendations |-> fallback.recommendations]

GenerateReport(studyData, response) ==
    /\ LET result == generateReport(studyData, response)
       IN  report' = [called |-> TRUE, studyData |-> studyData, response |-> response,
                      outcome |-> result.outcome, origin |-> result.origin,
                      interpretation |-> result.interpretation,
                      recommendations |-> result.recommendations]
    /\ UNCHANGED <<schedVars, gen, emgVars, sources, wave, lookups, ncv, practiceVars>>

\* one call per behaviour
NextReport ==
    /\ ~report.called
    /\ \E studyData \in StudyDatas, response \in Responses :
          GenerateReport(studyData, response)

SpecReport == Init /\ [][NextReport]_vars

(***************************************************************************)
(* The practice tabs of App: CaseStudies and ReportBuilder.  A component   *)
(* exists while its tab is the active one; its state starts afresh when    *)
(* the tab is opened.                                                      *)
(***************************************************************************)
PracticeTabs == {"cases", "reports"}

practiceQuiet == <<quietVars, emgVars, sources, wave, lookups, ncv, report>>

\* a tab button of App: the component of the old tab is unmounted, the one
\* of the new tab is mounted with its initial state
setActiveTab(t) ==
    /\ activeTab # t
    /\ activeTab' = t
    /\ caseStudies' = CaseStudiesInitial
    /\ reportBuilder' = [reportBuilder EXCEPT !.form = EmptyForm]
    /\ last' = [NoOp EXCEPT !.op = "setActiveTab"]
    /\ UNCHANGED practiceQuiet

\* cases[i].options, by id
CaseOptions ==
    [i \in 0..2 |->
       CASE i = 0 -> {"cts", "c6-rad", "poly", "tho"}
         [] i = 1 -> {"c6", "c7", "median-n", "brachial"}
         [] OTHER -> {"axonal", "demyel", "l5-rad", "spinal"}]

\* resetCase: setSelectedDiagnosis(''); setShowFeedback(false)
resetCase(cs) == [cs EXCEPT !.selectedDiagnosis = "", !.showFeedback = FALSE]

\* a case button that only switches the case
SelectCaseNoReset(i) ==
    /\ activeTab = "cases"
    /\ caseStudies' = [caseStudies EXCEPT !.selectedCase = i]
    /\ last' = [NoOp EXCEPT !.op = "selectCase"]
    /\ UNCHANGED <<practiceQuiet, activeTab, reportBuilder>>

\* a case button: setSelectedCase(index); resetCase()
SelectCase(i) ==
    /\ activeTab = "cases"
    /\ caseStudies' = resetCase([caseStudies EXCEPT !.selectedCase = i])
    /\ last' = [NoOp EXCEPT !.op = "selectCase"]
    /\ UNCHANGED <<practiceQuiet, activeTab, reportBuilder>>

\* a radio button of the diagnosis form, rendered while no feedback is shown
ChooseOption(o) ==
    /\ activeTab = "cases"
    /\ ~caseStudies.showFeedback
    /\ o \in CaseOptions[caseStudies.selectedCase]
    /\ caseStudies' = [caseStudies EXCEPT !.selectedDiagnosis = o]
    /\ last' = [NoOp EXCEPT !.op = "chooseOption"]
    /\ UNCHANGED <<practiceQuiet, activeTab, reportBuilder>>

\* Submit Diagnosis (disabled while nothing is selected): handleDiagnosisSubmit
handleDiagnosisSubmit ==
    /\ activeTab = "cases"
    /\ ~caseStudies.showFeedback
    /\ caseStudies.selectedDiagnosis # ""
    /\ caseStudies' = IF caseStudies.selectedDiagnosis # ""
                      THEN [caseStudies EXCEPT !.showFeedback = TRUE]
                      ELSE caseStudies
    /\ last' = [NoOp EXCEPT !.op = "handleDiagnosisSubmit"]
    /\ UNCHANGED <<practiceQuiet, activeTab, reportBuilder>>

\* Try Again, rendered with the feedback: resetCase
TryAgain ==
    /\ activeTab = "cases"
    /\ caseStudies.showFeedback
    /\ caseStudies' = resetCase(caseStudies)
    /\ last' = [NoOp EXCEPT !.op = "tryAgain"]
    /\ UNCHANGED <<practiceQuiet, activeTab, reportBuilder>>

\* the values typed into the text fields
PatientNames == {"", "Jane Doe"}
InterpretationTexts == {"", "Normal study."}

\* the document generateReport builds from the form state
reportHTML(form) == [kind |-> "html", form |-> form]

\* the text a Blob holds for the part undefined
UndefinedText == [kind |-> "undefined", form |-> EmptyForm]

\* a form handler: the fields and the rows of the two tables
SetForm(form) ==
    /\ activeTab = "reports"
    /\ reportBuilder' = [reportBuilder EXCEPT !.form = form]
    /\ last' = [NoOp EXCEPT !.op = "setForm"]
    /\ UNCHANGED <<practiceQuiet, activeTab, caseStudies>>

setPatientInfo(name) == SetForm([reportBuilder.form EXCEPT !.name = name])

setInterpretation(text) == SetForm([reportBuilder.form EXCEPT !.interpretation = text])

addNcvFinding ==
    /\ reportBuilder.form.ncvFindings < MaxRows
    /\ SetForm([reportBuilder.form EXCEPT !.ncvFindings = @ + 1])

deleteNcvFinding ==
    /\ reportBuilder.form.ncvFindings > 0
    /\ SetForm([reportBuilder.form EXCEPT !.ncvFindings = @ - 1])

addEmgFinding ==
    /\ reportBuilder.form.emgFindings < MaxRows
    /\ SetForm([reportBuilder.form EXCEPT !.emgFindings = @ + 1])

deleteEmgFinding ==
    /\ reportBuilder.form.emgFindings > 0
    /\ SetForm([reportBuilder.form EXCEPT !.emgFindings = @ - 1])

\* ReportBuilder.generateReport: builds the document, opens a window and
\* writes the document into it; the function has no return statement.
\* window.open returns null when the popup is blocked, and
\* printWindow.document then throws.
writeReport(form, blocked) ==
    [threw |-> blocked,
     written |-> IF blocked THEN NoDocument ELSE reportHTML(form),
     returned |-> UndefinedText]

\* Print Preview: onClick = generateReport
PrintPreview(blocked) ==
    /\ activeTab = "reports"
    /\ LET eff == writeReport(reportBuilder.form, blocked)
       IN  /\ reportBuilder' = [reportBuilder EXCEPT !.previewWindow =
                                   IF eff.threw THEN @ ELSE eff.written]
           /\ last' = [NoOp EXCEPT !.op = "generateReport", !.threw = eff.threw]
    /\ UNCHANGED <<practiceQuiet, activeTab, caseStudies>>

\* Download HTML: reportHTML = generateReport(); new Blob([reportHTML]) is
\* saved through a temporary link
downloadReport(blocked) ==
    /\ activeTab = "reports"
    /\ LET eff == writeReport(reportBuilder.form, blocked)
       IN  /\ reportBuilder' = [reportBuilder EXCEPT
                 !.previewWindow = IF eff.threw THEN @ ELSE eff.written,
                 !.downloaded = IF eff.threw THEN @ ELSE eff.returned]
           /\ last' = [NoOp EXCEPT !.op = "downloadReport", !.threw = eff.threw]
    /\ UNCHANGED <<practiceQuiet, activeTab, caseStudies>>

NextPractice ==
    \/ \E t \in PracticeTabs : setActiveTab(t)
    \/ \E i \in 0..2 : SelectCase(i)
    \/ \E o \in UNION {CaseOptions[i] : i \in 0..2} : ChooseOption(o)
    \/ handleDiagnosisSubmit
    \/ TryAgain
    \/ \E name \in PatientNames : setPatientInfo(name)
    \/ \E text \in InterpretationTexts : setInterpretation(text)
    \/ addNcvFinding
    \/ deleteNcvFinding
    \/ addEmgFinding
    \/ deleteEmgFinding
    \/ \E blocked \in BOOLEAN : PrintPreview(blocked)
    \/ \E blocked \in BOOLEAN : downloadReport(blocked)

SpecPractice == Init /\ [][NextPractice]_vars

----------------------------------------------------------------------------
(* Properties *)

\* the handler that ran last made an audio event for handle h
JustPlayed(h) == last.h = h /\ last.played /\ last.op \in {"start", "playPattern"}

\* the step is a handler of h that makes an audio event
PlayedStep(h) == last'.h = h /\ last'.played /\ timeoutIds'[h] # timeoutIds[h]

\* the step is a call of stop() on h
StopStep(h) == last'.op = "stop" /\ last'.h = h /\ stopCalls'[h] > 0

\* the handle was stopped, by stop() or by its auto-stop timer
Stopped(h) ==
    /\ status[h] = "returned"
    /\ stopCalls[h] > 0 \/ (duration[h] > 0 /\ DeadlineTimers(h) = {})

\* C1: once stop() has returned, no handler makes an audio event for the
\* handle any more, and a stop() that directly follows the start leaves
\* exactly one audio event, the initial one.
C1_StopSilencesHandle ==
    [][\A h \in Handles :
         /\ stopCalls[h] > 0 => ~PlayedStep(h) /\ events'[h] = events[h]
         /\ (last.op = "start" /\ last.h = h /\ status[h] = "returned" /\ StopStep(h))
               => events'[h] = 1]_vars

\* the part of C1 that does not depend on the initial event
NoEventAfterStop ==
    [][\A h \in Handles :
         stopCalls[h] > 0 => ~PlayedStep(h) /\ events'[h] = events[h]]_vars

\* C2: a stop() on a handle that was already stopped (by stop() or by the
\* auto-stop timer) raises no error, cancels nothing and leaves the playing
\* flag, the pending timers and the number of audio events as they were.
C2_StopIdempotent ==
    [][\A h \in Handles :
         (Stopped(h) /\ StopStep(h)) =>
            /\ isPlaying'[h] = isPlaying[h]
            /\ timeoutIds'[h] = timeoutIds[h]
            /\ events'[h] = events[h]
            /\ ~last'.threw
            /\ last'.cleared = 0]_vars

C2_Witness ==
    \E h \in Handles : stopCalls[h] = 2 /\ events[h] >= 2 /\ last.op = "stop"

\* C3 as stated (deadline after duration milliseconds): with a duration
\* D > 0 there is one deadline timer, after D ms the handle is stopped with
\* no timer pending, and no audio event is made later than D ms after start.
C3_DeadlineInMilliseconds ==
    \A h \in Handles :
       (status[h] = "returned" /\ duration[h] > 0 /\ patternType[h] \in KnownPatterns) =>
          /\ Cardinality(DeadlineTimers(h)) <= 1
          /\ (last.op = "start" /\ last.h = h) => Cardinality(DeadlineTimers(h)) = 1
          /\ elapsed[h] > duration[h] => (~isPlaying[h] /\ timeoutIds[h] = <<>>)
          /\ JustPlayed(h) => elapsed[h] <= duration[h]

\* C3 amended (duration is in seconds): with a duration D > 0 there is one
\* deadline timer, of delay D * 1000 ms; after D * 1000 ms the handle is
\* stopped with no timer pending, and no audio event is made later than
\* D * 1000 ms after start.
C3_DeadlineInSeconds ==
    \A h \in Handles :
       (status[h] = "returned" /\ duration[h] > 0) =>
          /\ Cardinality(DeadlineTimers(h)) <= 1
          /\ (last.op = "start" /\ last.h = h) =>
                /\ Cardinality(DeadlineTimers(h)) = 1
                /\ \A i \in DeadlineTimers(h) : timeoutIds[h][i].rem = duration[h] * 1000
          /\ elapsed[h] > duration[h] * 1000 => (~isPlaying[h] /\ timeoutIds[h] = <<>>)
          /\ JustPlayed(h) => elapsed[h] <= duration[h] * 1000

C3_Witness ==
    \E h \in Handles :
       /\ duration[h] > 0
       /\ last.op = "autoStop" /\ last.h = h /\ last.cleared >= 1
       /\ elapsed[h] = duration[h] * 1000
       /\ events[h] >= 2

\* C4: for every pattern id of the enumeration, when start returns the
\* scheduler is Playing, exactly one audio event was made and exactly one
\* event timer is pending.
C4_StartPlaysOnce ==
    \A h \in Handles :
       (last.op = "start" /\ last.h = h /\ audioAvailable /\ patternType[h] \in PatternIds) =>
          /\ status[h] = "returned"
          /\ isPlaying[h]
          /\ last.played /\ events[h] = 1
          /\ Cardinality(EventTimers(h)) = 1

\* C5: on a handle started without auto-stop, every audio event made while
\* stop() has not been called is followed by another audio event of the
\* handle, unless stop() is called.
C5_ContinuousUntilStopped ==
    \A h \in Handles :
       [](  (status[h] = "returned" /\ duration[h] <= 0 /\ stopCalls[h] = 0 /\ JustPlayed(h))
         => <>(\/ stopCalls[h] > 0
               \/ (~JustPlayed(h) /\ <>(JustPlayed(h) \/ stopCalls[h] > 0))))

C5_Witness ==
    \E h \in Handles :
       /\ status[h] = "returned" /\ duration[h] <= 0 /\ stopCalls[h] = 0
       /\ last.op = "playPattern" /\ JustPlayed(h) /\ events[h] >= 3

\* C6: without a usable audio output startPattern does not throw; it
\* returns a handle, makes no audio event and schedules no event timer.
C6_NoAudioNoThrow ==
    \A h \in Handles :
       (~audioAvailable /\ status[h] # "none") =>
          /\ status[h] = "returned"
          /\ ~last.threw
          /\ events[h] = 0
          /\ EventTimers(h) = {}

\* C7: generatePattern with a zero or negative duration returns an empty
\* buffer and raises no error.
C7_DegenerateDurationEmpty ==
    (gen.called /\ gen.halfMs <= 0) => (~gen.threw /\ gen.len = 0)

\* C8: the delay of every scheduled event timer lies in the interval of the
\* pattern: 50..150 Normal, 70..200 Fibrillation, 500..3000 Fasciculation,
\* exactly 300 Complex Repetitive Discharge.
DelayInInterval(p, d) ==
    /\ p = "normal" => (50 <= d /\ d <= 150)
    /\ p = "fibrillation" => (70 <= d /\ d <= 200)
    /\ p = "fasciculation" => (500 <= d /\ d <= 3000)
    /\ p = "crd" => d = 300

C10_FasciculationMinGap ==
    (gen.called /\ gen.pattern = "fasciculation") =>
       \A i \in gen.placed, j \in gen.placed :
          i < j => (j - i) >= 500 * gen.rate

\* the handles that have not been stopped
LiveHandles == {h \in Handles : status[h] = "returned" /\ isPlaying[h]}

\* C11: after any sequence of Play/Stop presses, pattern selections, sound
\* toggles and firings of the 10-second timers of EMGModule, at most one
\* handle that has not been stopped exists.
C11_SingleLiveHandle == Cardinality(LiveHandles) <= 1

C11_Witness ==
    /\ status["h1"] = "returned" /\ ~isPlaying["h1"] /\ stopCalls["h1"] > 0
    /\ events["h1"] >= 2
    /\ LiveHandles = {"h2"} /\ audioControlRef = "h2"
    /\ Len(emgTimers) = 2

\* the step is stop() or the auto-stop callback of h
StopOrAutoStopStep(h) ==
    /\ last'.h = h
    /\ \/ last'.op = "stop" /\ stopCalls'[h] > 0
       \/ last'.op = "autoStop" /\ DeadlineTimers(h) # {} /\ DeadlineTimers(h)' = {}

\* C12: with two handles started side by side, stop() or the auto-stop of
\* one handle leaves the playing flag, the pending timers and the event
\* count of the other unchanged, and the other, when it has no auto-stop
\* and is not stopped, goes on making audio events.
C12_HandlesIndependent ==
    /\ [][\A h \in Handles, g \in Handles :
            (h # g /\ StopOrAutoStopStep(h)) =>
               /\ isPlaying'[g] = isPlaying[g]
               /\ timeoutIds'[g] = timeoutIds[g]
               /\ events'[g] = events[g]]_vars
    /\ \A g \in Handles :
          [](  (status[g] = "returned" /\ duration[g] <= 0 /\ stopCalls[g] = 0 /\ JustPlayed(g))
            => <>(\/ stopCalls[g] > 0
                  \/ (~JustPlayed(g) /\ <>(JustPlayed(g) \/ stopCalls[g] > 0))))

\* both handles were live and interleaved their events; h1 was stopped and
\* h2 has made an event since
C12_Witness ==
    /\ stopCalls["h1"] > 0 /\ events["h1"] >= 2
    /\ isPlaying["h2"] /\ events["h2"] >= 3 /\ stopCalls["h2"] = 0
    /\ last.op = "playPattern" /\ JustPlayed("h2")

\* the source was started and is set to end: a stop is scheduled after its
\* start, or it plays a buffer once that has some length left
WillEnd(src) ==
    /\ src.started
    /\ \/ src.stopIn # NoStop /\ src.stopIn > src.startIn
       \/ src.kind = "bufferSource" /\ ~src.loop /\ src.bufferLeft > 0

\* C13: every source a synthesizer call has created was started in that
\* call and has either a stop scheduled after its start or a buffer of
\* finite length played once, so every source alive is about to end.
C13_EverySourceEnds ==
    \A i \in 1..Len(sources) : WillEnd(sources[i])

\* a noise burst without stop() next to a CRD burst of five oscillators,
\* the last of which has not started yet
C13_Witness ==
    /\ \E i \in 1..Len(sources) :
          sources[i].kind = "bufferSource" /\ sources[i].stopIn = NoStop
    /\ Cardinality({i \in 1..Len(sources) :
                      sources[i].fn = "playComplexRepetitiveDischarge"}) = 5
    /\ \E i \in 1..Len(sources) : sources[i].startIn > 0
    /\ last.op = "playComplexRepetitiveDischarge"

\* C14 as stated: for a duration >= 0 and a rate > 0 the buffer length is
\* exactly the product duration x rate (duration = halfMs / 2).
C14_LengthIsProduct ==
    (gen.called /\ gen.halfMs >= 0 /\ gen.rate > 0) =>
        (~gen.threw /\ 2 * gen.len = gen.halfMs * gen.rate)

\* C14: for a duration >= 0 and a rate > 0 the call returns a buffer whose
\* length is the product duration x rate rounded down to a whole number.
C14_LengthIsFloorOfProduct ==
    (gen.called /\ gen.halfMs >= 0 /\ gen.rate > 0) =>
        /\ ~gen.threw
        /\ 2 * gen.len <= gen.halfMs * gen.rate
        /\ gen.halfMs * gen.rate < 2 * (gen.len + 1)

\* 1.5 ms at 1 sample per ms: one sample
C14_Witness ==
    gen.called /\ ~gen.threw /\ gen.halfMs = 3 /\ gen.rate = 1 /\ gen.len = 1

\* the time of the last generator call lies outside the generator's event
\* window: before 0 or after the duration, and for the CRD generator more
\* than 15 ms into the period the time lies in
OutsideWindow ==
    CASE wave.fn = "generateNormalMUAP"        -> wave.n < 0 \/ wave.n > 12 * wave.d
      [] wave.fn = "generateFibrillation"      -> wave.n < 0 \/ wave.n > 2 * wave.d
      [] wave.fn = "generateFasciculation"     -> wave.n < 0 \/ wave.n > 12 * wave.d
      [] wave.fn = "generateMyotonicDischarge" -> wave.n < 0 \/ wave.n > wave.total * wave.d
      [] wave.fn = "generatePositiveSharpWave" -> wave.n < 0 \/ wave.n > 20 * wave.d
      [] wave.fn = "generateComplexRepetitiveDischarge" ->
            (wave.n * wave.f) % (1000 * wave.d) > 15 * wave.d * wave.f
      [] OTHER -> FALSE

\* C18: every generator returns 0 for every time outside its event window,
\* negative times included.
C18_ZeroOutsideWindow == OutsideWindow => wave.value = 0

\* C19: generateFasciculation(t) equals generateNormalMUAP(t) for every t.
C19_FasciculationIsNormal ==
    wave.fn = "generateFasciculation" => wave.value = generateNormalMUAP(wave.n, wave.d)

\* the fasciculation generator was called inside the main negative spike
C19_Witness ==
    /\ wave.fn = "generateFasciculation"
    /\ wave.n = 5 * wave.d
    /\ wave.value < 0

\* the sum over the events of the generator's value at sample index i
\* minus the event's start index
RECURSIVE SumOfEvents(_, _, _, _)
SumOfEvents(starts, i, p, rate) ==
    IF starts = {} THEN 0
    ELSE LET e == CHOOSE x \in starts : TRUE
         IN  EventValue(p, i - e, rate) + SumOfEvents(starts \ {e}, i, p, rate)

\* C15: in the buffer of a PoissonLike pattern every sample is the sum,
\* over all placed events, of the generator's value at the sample's time
\* minus the event's start; nothing is clamped or overwritten.
C15_Superposition ==
    (gen.called /\ ~gen.threw /\ gen.pattern \in PoissonPatterns) =>
        \A k \in 1..gen.len :
           gen.data[k] = SumOfEvents(gen.placed, k - 1, gen.pattern, gen.rate)

\* two Normal events started at adjacent samples overlap on the third
\* sample, where both have a non-zero value
C15_Witness ==
    /\ gen.called /\ ~gen.threw /\ gen.pattern = "normal"
    /\ gen.placed = {0, 1} /\ gen.len >= 3
    /\ generateNormalMUAP(1, gen.rate) > 0
    /\ gen.data[3] = generateNormalMUAP(2, gen.rate) + generateNormalMUAP(1, gen.rate)
    /\ gen.data[3] > generateNormalMUAP(2, gen.rate)

\* C16: a CRD buffer of whole 25 ms periods (1000 ms at 10 samples per ms:
\* 40 periods of 250 samples) has in every period one active spike window:
\* the samples at most 15 ms into the period hold the spike formula, some
\* of them are not 0, and all other samples of the period are 0.
C16_OneSpikeWindowPerPeriod ==
    (gen.called /\ ~gen.threw /\ gen.pattern = "crd" /\ gen.halfMs % 50 = 0) =>
        LET perPeriod == 25 * gen.rate
            periods == gen.halfMs \div 50
        IN  /\ gen.len = periods * perPeriod
            /\ \A q \in 0..(periods - 1) :
                  /\ \A m \in 0..(perPeriod - 1) :
                        gen.data[q * perPeriod + m + 1] =
                           IF m <= 15 * gen.rate
                           THEN CrdSpike(40 * m, 15 * gen.rate * 40)
                           ELSE 0
                  /\ \E m \in 0..(15 * gen.rate) : gen.data[q * perPeriod + m + 1] # 0

\* generatePattern(ComplexRepetitiveDischarge, 1000, 10): 10000 samples;
\* in the 40th period the sample at 2 ms is not 0, the one at 15 ms follows
\* the formula and the last one is 0
C16_Witness ==
    /\ gen.called /\ ~gen.threw /\ gen.pattern = "crd"
    /\ gen.halfMs = 2000 /\ gen.rate = 10 /\ gen.len = 10000
    /\ gen.data[39 * 250 + 20 + 1] # 0
    /\ gen.data[39 * 250 + 150 + 1] = CrdSpike(40 * 150, 15 * 10 * 40)
    /\ gen.data[10000] = 0

\* the mean number of events of the buffer: the probability of a step
\* times the number of steps
ExpectedEvents ==
    (PlacementPerTenThousand(gen.pattern) * gen.len) \div 10000

\* C17: generatePattern(Fibrillation, 1000, 10) has 10000 samples and a
\* mean number of events within the documented 2 to 20 per second.
C17_FibrillationRateInBand ==
    (gen.called /\ gen.pattern = "fibrillation" /\ gen.halfMs = 2000 /\ gen.rate = 10) =>
        /\ ~gen.threw
        /\ gen.len = 10000
        /\ ExpectedEvents >= 2
        /\ ExpectedEvents <= 20

\* C20: each of the six pattern ids has a descriptor of its own in the
\* catalogue, no two ids share one, and getPatternMetadata returns the
\* id's own descriptor, with duration, amplitude and firing not empty.
C20_EveryPatternHasItsDescriptor ==
    \A i \in 1..Len(lookups) :
       (lookups[i].fn = "getPatternMetadata" /\ lookups[i].id \in PatternIds) =>
          /\ lookups[i].id \in DOMAIN metadata
          /\ lookups[i].result = metadata[lookups[i].id]
          /\ \A other \in DOMAIN metadata \ {lookups[i].id} :
                metadata[other] # lookups[i].result
          /\ lookups[i].result.duration # ""
          /\ lookups[i].result.amplitude # ""
          /\ lookups[i].result.firing # ""

\* C21: for an id outside the catalogue both tables return the Normal
\* entry, generatePattern returns what it returns for Normal with the same
\* random draws, and startPattern makes its first event and arms its next
\* timer as it does for Normal.
C21_UnknownFallsBackToNormal ==
    /\ \A i \in 1..Len(lookups) :
          lookups[i].id \in UnknownIds =>
             lookups[i].result = (IF lookups[i].fn = "getPatternMetadata"
                                  THEN metadata["normal"]
                                  ELSE characteristics["normal"])
    /\ (gen.called /\ gen.pattern \in UnknownIds) =>
          \E draws \in SUBSET (0..(gen.len - 1)) :
             gen.data = generateEMGPattern("normal", gen.halfMs, gen.rate, draws).data
    /\ \A h \in Handles :
          (last.op = "start" /\ last.h = h /\ audioAvailable /\ patternType[h] \in UnknownIds) =>
             /\ last.played
             /\ EventTimers(h) # {}

\* C22: for every reachable slider state, every point of the drawn distal and
\* proximal action potentials lies horizontally inside its response box.
C22_PotentialsInsideBox ==
    /\ \A px \in PointXs(ncv.distalLatency) : InsideBox(px)
    /\ \A px \in PointXs(ncv.proximalLatency) : InsideBox(px)

\* C29: the displayed conduction velocity is finite and positive for every
\* reachable slider combination.
C29_VelocityFinitePositive ==
    /\ conductionVelocity(ncv).finite
    /\ conductionVelocity(ncv).tenths > 0

EmgTimerStep == emgTimers # <<>> /\ emgTimers[1] = 0 /\ emgTimers' = Tail(emgTimers)

\* C26: the 10-second timer of a Play press stops only the session of that
\* press: when a timer runs while the module is playing, it is the timer of
\* the latest Play press (the one that started the current session), or
\* that press's own 10 seconds are over as well.
C26_TimerStopsOwnSession ==
    [][(EmgTimerStep /\ emgMounted /\ emgIsPlaying) =>
          emgTimers[Len(emgTimers)] = 0]_vars

\* C27: once EMGModule is unmounted no handle is playing, no event timer is
\* pending and no step plays an audio event.
C27_SilentAfterUnmount ==
    /\ [](~emgMounted =>
            \A h \in Handles : ~isPlaying[h] /\ EventTimers(h) = {})
    /\ [][~emgMounted => \A h \in Handles : ~PlayedStep(h)]_vars

\* the module was unmounted while a handle that has played several events
\* was held by the ref, and time has passed since
C27_Witness ==
    /\ ~emgMounted
    /\ last.op = "advance"
    /\ \E h \in Handles :
          audioControlRef = h /\ events[h] >= 2 /\ stopCalls[h] = 1

\* C28: generateReport never rejects; when the request fails or the service
\* answers with a non-2xx status it resolves to the fallback report, whose
\* interpretation and recommendations lists are both non-empty.
C28_ReportNeverRejects ==
    report.called =>
       /\ report.outcome = "resolved"
       /\ report.response \in {"networkError", "status500"} =>
             /\ report.origin = "fallback"
             /\ report.interpretation # <<>>
             /\ report.recommendations # <<>>

\* C23: after Download HTML the content of the downloaded file is the report
\* HTML document of the current form state, the one Print Preview writes
\* into the preview window.
C23_DownloadIsTheReport ==
    (last.op = "downloadReport" /\ ~last.threw) =>
       /\ reportBuilder.downloaded = reportHTML(reportBuilder.form)
       /\ reportBuilder.downloaded = reportBuilder.previewWindow

\* C30: feedback is shown only while a diagnosis is selected and it is an
\* option id of the currently selected case; selecting a case clears the
\* selection and the feedback.
C30_FeedbackNeedsOptionOfCase ==
    /\ caseStudies.showFeedback =>
          /\ caseStudies.selectedDiagnosis # ""
          /\ caseStudies.selectedDiagnosis \in CaseOptions[caseStudies.selectedCase]
    /\ last.op = "selectCase" =>
          caseStudies.selectedDiagnosis = "" /\ ~caseStudies.showFeedback

\* feedback on a wrong answer is shown in the third case
C30_Witness ==
    /\ last.op = "handleDiagnosisSubmit"
    /\ caseStudies.showFeedback
    /\ caseStudies.selectedCase = 2
    /\ caseStudies.selectedDiagnosis = "spinal"

====
